---- MODULE Spec2Model ----
(***************************************************************************)
(* Holey Box Generator (src/main.js): the parameter model fed by the UI    *)
(* listeners, the debounced regeneration, the mesh pipeline generateModel, *)
(* the OBJ export and the Rhino script emitter downloadRhinoScript.        *)
(*                                                                         *)
(* Numbers.  Hole counts are plain integers.  Lengths, radii and depths    *)
(* are JavaScript floats in the source; here they are fixed-point integers *)
(* counted in tenths (4.0 is 40, 0.5 is 5), which represents every value   *)
(* the model's inputs produce exactly.  NaN is a distinguished value that  *)
(* arithmetic propagates and every comparison rejects, as in IEEE 754.     *)
(* Texts (input values, script literals) are sequences of one-character    *)
(* strings.                                                                *)
(***************************************************************************)
EXTENDS Integers, Sequences, FiniteSets, TLC

\* ---------------------------------------------------------------- constants

BOX_WIDTH == 20
BOX_DEPTH == 20
HEIGHT_PER_HOLE == 20
FIRST_HOLE_OFFSET == 10
HOLE_STEP == 20
BATCH_SPACING == 40
\* setTimeout(..., 300) in debouncedGenerate
DEBOUNCE_MS == 300
\* new THREE.CylinderGeometry(drillRadius, drillRadius, 80.0, SEGMENTS)
H_CYL_LENGTH == 80
\* new THREE.CylinderGeometry(drillRadius, drillRadius, boxHeight + 20.0, ...)
V_CYL_MARGIN == 20
\* script: base_pt = [cx, 0, -height/2 - 50.0]
SCRIPT_V_START == 50
\* script: rs.AddCylinder(plane, height + 100.0, radius)
SCRIPT_V_MARGIN == 100
\* script: cross_length = 80.0
SCRIPT_CROSS_LENGTH == 80
\* script: start_x = [cx-40.0, 0, z_pos]
SCRIPT_CROSS_START == 40

\* ------------------------------------------------------------------ bounds

\* debouncedGenerate calls in one behaviour (the start-up call included)
MaxCalls == 3

\* ----------------------------------------------------------------- numbers

\* The value parseInt / parseFloat return for a text that holds no number.
NaN == -999999

IsNaN(x) == x = NaN

\* a length given in whole units, in tenths
Units(x) == 10 * x

\* if (val <= 0) val = 0.5
RADIUS_FLOOR == Units(1) \div 2

Add(a, b) == IF IsNaN(a) \/ IsNaN(b) THEN NaN ELSE a + b
Sub(a, b) == IF IsNaN(a) \/ IsNaN(b) THEN NaN ELSE a - b
Neg(a) == IF IsNaN(a) THEN NaN ELSE 0 - a
\* count * value
Times(n, v) == IF IsNaN(n) \/ IsNaN(v) THEN NaN ELSE n * v
\* count * length-in-units, in tenths
Scale(n, len) == Times(n, Units(len))
\* x / 2 (every halved value of the program is an even number of tenths)
Half(a) == IF IsNaN(a) THEN NaN ELSE a \div 2
Lt(a, b) == ~IsNaN(a) /\ ~IsNaN(b) /\ a < b
Le(a, b) == ~IsNaN(a) /\ ~IsNaN(b) /\ a <= b
Gt(a, b) == ~IsNaN(a) /\ ~IsNaN(b) /\ a > b

\* ------------------------------------------------------------------- texts

DigitChars == <<"0", "1", "2", "3", "4", "5", "6", "7", "8", "9">>

IsDigit(c) == \E i \in 1..Len(DigitChars) : DigitChars[i] = c

DigitVal(c) == (CHOOSE i \in 1..Len(DigitChars) : DigitChars[i] = c) - 1

IsSpace(c) == c = " "

RECURSIVE TrimStart(_)
TrimStart(s) ==
    IF s # <<>> /\ IsSpace(Head(s)) THEN TrimStart(Tail(s)) ELSE s

RECURSIVE TrimEnd(_)
TrimEnd(s) ==
    IF s # <<>> /\ IsSpace(s[Len(s)])
    THEN TrimEnd(SubSeq(s, 1, Len(s) - 1))
    ELSE s

\* String.prototype.trim
Trim(s) == TrimEnd(TrimStart(s))

\* the longest prefix of s made of decimal digits
RECURSIVE DigitPrefix(_)
DigitPrefix(s) ==
    IF s # <<>> /\ IsDigit(Head(s))
    THEN <<Head(s)>> \o DigitPrefix(Tail(s))
    ELSE <<>>

RECURSIVE DigitsValue(_, _)
DigitsValue(ds, acc) ==
    IF ds = <<>> THEN acc
    ELSE DigitsValue(Tail(ds), acc * 10 + DigitVal(Head(ds)))

\* the text after an optional sign
Unsigned(s) == IF s # <<>> /\ Head(s) \in {"-", "+"} THEN Tail(s) ELSE s

IsNegative(s) == s # <<>> /\ Head(s) = "-"

\* parseInt(text): leading white space skipped, an optional sign, then the
\* longest run of decimal digits; NaN when there is no digit.  A plain integer.
parseInt(text) ==
    LET s  == TrimStart(text)
        ds == DigitPrefix(Unsigned(s))
    IN  IF ds = <<>> THEN NaN
        ELSE IF IsNegative(s) THEN 0 - DigitsValue(ds, 0)
        ELSE DigitsValue(ds, 0)

\* parseFloat(text): leading white space skipped, an optional sign, digits, an
\* optional point and digits; NaN when neither part holds a digit.  In tenths:
\* fraction digits after the first are below the model's resolution.
parseFloat(text) ==
    LET s    == TrimStart(text)
        body == Unsigned(s)
        ip   == DigitPrefix(body)
        rest == SubSeq(body, Len(ip) + 1, Len(body))
        fp   == IF rest # <<>> /\ Head(rest) = "."
                THEN DigitPrefix(Tail(rest)) ELSE <<>>
        mag  == Units(DigitsValue(ip, 0))
                + (IF fp = <<>> THEN 0 ELSE DigitVal(Head(fp)))
    IN  IF ip = <<>> /\ fp = <<>> THEN NaN
        ELSE IF IsNegative(s) THEN 0 - mag
        ELSE mag

\* String.prototype.split(','): the pieces between commas, empty ones kept
RECURSIVE SplitFrom(_, _)
SplitFrom(s, cur) ==
    IF s = <<>> THEN <<cur>>
    ELSE IF Head(s) = "," THEN <<cur>> \o SplitFrom(Tail(s), <<>>)
    ELSE SplitFrom(Tail(s), Append(cur, Head(s)))

Split(s) == SplitFrom(s, <<>>)

\* the decimal digits of a natural number
RECURSIVE NatText(_)
NatText(n) ==
    IF n < 10 THEN <<DigitChars[n + 1]>>
    ELSE NatText(n \div 10) \o <<DigitChars[(n % 10) + 1]>>

\* Number-to-string of a template literal, for a hole count
FormatInt(n) ==
    IF IsNaN(n) THEN <<"N", "a", "N">>
    ELSE IF n < 0 THEN <<"-">> \o NatText(0 - n)
    ELSE NatText(n)

\* Number-to-string of a template literal, for a value in tenths: no point and
\* no fraction when the value is whole (20.0 prints as 20)
FormatNumber(v) ==
    IF IsNaN(v) THEN <<"N", "a", "N">>
    ELSE LET m == IF v < 0 THEN 0 - v ELSE v
             t == NatText(m \div 10)
                  \o (IF m % 10 = 0 THEN <<>> ELSE <<".", DigitChars[(m % 10) + 1]>>)
         IN  IF v < 0 THEN <<"-">> \o t ELSE t

\* Array.prototype.join(',') of the hole counts
RECURSIVE JoinInts(_)
JoinInts(xs) ==
    IF xs = <<>> THEN <<>>
    ELSE IF Len(xs) = 1 THEN FormatInt(xs[1])
    ELSE FormatInt(xs[1]) \o <<",">> \o JoinInts(Tail(xs))

\* ------------------------------------------------- generateModel: one block

\* for (let i = 0; i < holes; i++): the number of iterations (none when the
\* comparison with NaN fails at once)
LoopCount(holes) == IF IsNaN(holes) \/ holes < 0 THEN 0 ELSE holes

\* const boxHeight = holes * HEIGHT_PER_HOLE
BoxHeight(holes) == Scale(holes, HEIGHT_PER_HOLE)

\* xOffset with the hole step in place of the batch spacing
XOffsetByHoleStep(index) == Scale(index, HOLE_STEP)

\* const xOffset = index * BATCH_SPACING (index counted from 0)
XOffset(index) == Scale(index, BATCH_SPACING)

\* const sideGrooveOffset = (BOX_WIDTH / 2) - grooveDepth + drillRadius
SideGrooveOffset(r, d) == Add(Sub(Half(Units(BOX_WIDTH)), d), r)

\* const topBottomGrooveOffset = (boxHeight / 2) - grooveDepth + drillRadius
TopBottomGrooveOffset(holes, r, d) == Add(Sub(Half(BoxHeight(holes)), d), r)

\* const yPos = (-boxHeight / 2) + FIRST_HOLE_OFFSET + (i * HOLE_STEP)
YPos(holes, i) ==
    Add(Add(Half(Neg(BoxHeight(holes))), Units(FIRST_HOLE_OFFSET)), Scale(i, HOLE_STEP))

\* Rotations are Euler angles counted in quarter turns: rotation.set(0, 0,
\* Math.PI / 2) is <<0, 0, 1>>.
RotNone == <<0, 0, 0>>
RotZ == <<0, 0, 1>>
RotX == <<1, 0, 0>>

\* A brush over a cylinder geometry of the given radius and length (the
\* cylinder's axis is Y before rotation), rotated and then positioned.
Brush(radius, length, rotation, position) ==
    [radius |-> radius, length |-> length, rotation |-> rotation, position |-> position]

\* a brush over hCylGeo = CylinderGeometry(drillRadius, drillRadius, 80.0)
HBrush(r, rotation, position) == Brush(r, Units(H_CYL_LENGTH), rotation, position)

\* the vertical hole with no margin: as long as the box is high
VerticalHoleFlush(holes, xOffset, r) ==
    Brush(r, BoxHeight(holes), RotNone, <<xOffset, 0, 0>>)

\* 1. Vertical Hole
VerticalHole(holes, xOffset, r) ==
    Brush(r, Add(BoxHeight(holes), Units(V_CYL_MARGIN)), RotNone, <<xOffset, 0, 0>>)

\* the X-axis and Z-axis holes of one level
ThroughHoles(xOffset, yPos, r) ==
    << HBrush(r, RotZ, <<xOffset, yPos, 0>>),
       HBrush(r, RotX, <<xOffset, yPos, 0>>) >>

\* SideGrooves with the guard grooveDepth >= 0 in place of grooveDepth > 0
SideGroovesAtZeroDepth(xOffset, yPos, r, d) ==
    LET sideGrooveOffset == SideGrooveOffset(r, d)
    IN  IF ~IsNaN(d) /\ d >= 0
        THEN << HBrush(r, RotZ, <<xOffset, yPos, sideGrooveOffset>>),
                HBrush(r, RotZ, <<xOffset, yPos, Neg(sideGrooveOffset)>>),
                HBrush(r, RotX, <<Add(xOffset, sideGrooveOffset), yPos, 0>>),
                HBrush(r, RotX, <<Sub(xOffset, sideGrooveOffset), yPos, 0>>) >>
        ELSE <<>>

\* the front, back, right and left grooves of one level
SideGrooves(xOffset, yPos, r, d) ==
    LET sideGrooveOffset == SideGrooveOffset(r, d)
    IN  IF Gt(d, 0)
        THEN << HBrush(r, RotZ, <<xOffset, yPos, sideGrooveOffset>>),
                HBrush(r, RotZ, <<xOffset, yPos, Neg(sideGrooveOffset)>>),
                HBrush(r, RotX, <<Add(xOffset, sideGrooveOffset), yPos, 0>>),
                HBrush(r, RotX, <<Sub(xOffset, sideGrooveOffset), yPos, 0>>) >>
        ELSE <<>>

\* the body of the hole loop, for levels i .. holes - 1
RECURSIVE HoleLoop(_, _, _, _, _)
HoleLoop(holes, i, xOffset, r, d) ==
    IF i >= LoopCount(holes) THEN <<>>
    ELSE ThroughHoles(xOffset, YPos(holes, i), r)
         \o SideGrooves(xOffset, YPos(holes, i), r, d)
         \o HoleLoop(holes, i + 1, xOffset, r, d)

\* Top/Bottom Grooves
TopBottomGrooves(holes, xOffset, r, d) ==
    LET topBottomGrooveOffset == TopBottomGrooveOffset(holes, r, d)
    IN  IF Gt(d, 0)
        THEN << HBrush(r, RotZ, <<xOffset, topBottomGrooveOffset, 0>>),
                HBrush(r, RotX, <<xOffset, topBottomGrooveOffset, 0>>),
                HBrush(r, RotZ, <<xOffset, Neg(topBottomGrooveOffset), 0>>),
                HBrush(r, RotX, <<xOffset, Neg(topBottomGrooveOffset), 0>>) >>
        ELSE <<>>

\* every brush subtracted from the box of block `index`, in the order of the
\* evaluator.evaluate(resultBrush, ..., SUBTRACTION) calls
BlockCutters(holes, index, r, d) ==
    <<VerticalHole(holes, XOffset(index), r)>>
    \o HoleLoop(holes, 0, XOffset(index), r, d)
    \o TopBottomGrooves(holes, XOffset(index), r, d)

\* boxBrush: BoxGeometry(BOX_WIDTH, boxHeight, BOX_DEPTH) at (xOffset, 0, 0)
BlockBox(holes, index) ==
    [size |-> <<Units(BOX_WIDTH), BoxHeight(holes), Units(BOX_DEPTH)>>,
     position |-> <<XOffset(index), 0, 0>>]

\* ------------------------------------------------------ downloadRhinoScript

\* let blocks = (mode === 'single') ? [numHoles] : batchList
BlocksOf(m, n, list) == IF m = "single" THEN <<n>> ELSE list

\* The emitted program, as the literals the template interpolates into its
\* fixed text; the fixed text is what RhinoBlock and RhinoMain interpret.
EmitScript(blocks, r, d) ==
    [width           |-> FormatNumber(Units(BOX_WIDTH)),
     depth           |-> FormatNumber(Units(BOX_DEPTH)),
     height_per_hole |-> FormatNumber(Units(HEIGHT_PER_HOLE)),
     radius          |-> FormatNumber(r),
     offset          |-> FormatNumber(Units(FIRST_HOLE_OFFSET)),
     step_size       |-> FormatNumber(Units(HOLE_STEP)),
     groove_offset   |-> FormatNumber(SideGrooveOffset(r, d)),
     grooveDepth     |-> FormatNumber(d),
     blocks          |-> JoinInts(blocks),
     spacing         |-> FormatNumber(Units(BATCH_SPACING))]

\* A numeric literal as Python reads it, in tenths; the name NaN is not
\* defined in Python, and the value is then NaN here.
PyNumber(text) ==
    LET body == Unsigned(text)
        ip   == DigitPrefix(body)
        rest == SubSeq(body, Len(ip) + 1, Len(body))
        fp   == IF rest # <<>> /\ Head(rest) = "." THEN Tail(rest) ELSE <<>>
        ok   == /\ ip # <<>>
                /\ rest = <<>> \/ (Head(rest) = "." /\ DigitPrefix(fp) = fp /\ Len(fp) <= 1)
        mag  == Units(DigitsValue(ip, 0)) + (IF fp = <<>> THEN 0 ELSE DigitVal(Head(fp)))
    IN  IF ~ok THEN NaN
        ELSE IF IsNegative(text) THEN 0 - mag
        ELSE mag

\* an integer literal as Python reads it (a plain integer)
PyInt(text) ==
    LET body == Unsigned(text)
    IN  IF body = <<>> \/ DigitPrefix(body) # body THEN NaN
        ELSE IF IsNegative(text) THEN 0 - DigitsValue(body, 0)
        ELSE DigitsValue(body, 0)

\* blocks = [3,2,5]
PyIntList(text) ==
    IF text = <<>> THEN <<>>
    ELSE [i \in 1..Len(Split(text)) |-> PyInt(Split(text)[i])]

\* rs.AddCylinder(rs.PlaneFromNormal(base, normal), length, radius): the
\* cylinder starts at base and runs for length along normal.
RhinoCylinder(base, normal, length, radius) ==
    [base |-> base, normal |-> normal, length |-> length, radius |-> radius]

\* the cutters create_block appends for levels i .. steps - 1
RECURSIVE RhinoLevels(_, _, _, _)
RhinoLevels(script, num_holes, cx, i) ==
    LET radius        == PyNumber(script.radius)
        height        == Times(num_holes, PyNumber(script.height_per_hole))
        z_pos         == Add(Add(Half(Neg(height)), PyNumber(script.offset)),
                             Times(i, PyNumber(script.step_size)))
        groove_offset == PyNumber(script.groove_offset)
        cross_length  == Units(SCRIPT_CROSS_LENGTH)
        startX        == Sub(cx, Units(SCRIPT_CROSS_START))
        startY        == Neg(Units(SCRIPT_CROSS_START))
    IN  IF i >= LoopCount(num_holes) THEN <<>>
        ELSE << RhinoCylinder(<<startX, 0, z_pos>>, <<1, 0, 0>>, cross_length, radius),
                RhinoCylinder(<<cx, startY, z_pos>>, <<0, 1, 0>>, cross_length, radius) >>
             \o (IF Gt(PyNumber(script.grooveDepth), 0)
                 THEN << RhinoCylinder(<<startX, groove_offset, z_pos>>,
                                       <<1, 0, 0>>, cross_length, radius),
                         RhinoCylinder(<<startX, Neg(groove_offset), z_pos>>,
                                       <<1, 0, 0>>, cross_length, radius),
                         RhinoCylinder(<<Add(cx, groove_offset), startY, z_pos>>,
                                       <<0, 1, 0>>, cross_length, radius),
                         RhinoCylinder(<<Sub(cx, groove_offset), startY, z_pos>>,
                                       <<0, 1, 0>>, cross_length, radius) >>
                 ELSE <<>>)
             \o RhinoLevels(script, num_holes, cx, i + 1)

\* create_block(num_holes, x_offset): the box (two opposite corners, c1 and
\* c7) and the cutters handed to rs.BooleanDifference, in order
RhinoBlock(script, num_holes, x_offset) ==
    LET width        == PyNumber(script.width)
        depth        == PyNumber(script.depth)
        height       == Times(num_holes, PyNumber(script.height_per_hole))
        radius       == PyNumber(script.radius)
        cx           == x_offset
        cross_length == Units(SCRIPT_CROSS_LENGTH)
        startX       == Sub(cx, Units(SCRIPT_CROSS_START))
        startY       == Neg(Units(SCRIPT_CROSS_START))
        tb_offset    == Add(Sub(Half(height), PyNumber(script.grooveDepth)),
                            PyNumber(script.radius))
        cyl_v        == RhinoCylinder(<<cx, 0, Sub(Half(Neg(height)), Units(SCRIPT_V_START))>>,
                                      <<0, 0, 1>>,
                                      Add(height, Units(SCRIPT_V_MARGIN)), radius)
    IN  [c1 |-> <<Sub(cx, Half(width)), Neg(Half(depth)), Neg(Half(height))>>,
         c7 |-> <<Add(cx, Half(width)), Half(depth), Half(height)>>,
         cutters |->
            <<cyl_v>>
            \o RhinoLevels(script, num_holes, cx, 0)
            \o (IF Gt(PyNumber(script.grooveDepth), 0)
                THEN << RhinoCylinder(<<startX, 0, tb_offset>>,
                                      <<1, 0, 0>>, cross_length, radius),
                        RhinoCylinder(<<cx, startY, tb_offset>>,
                                      <<0, 1, 0>>, cross_length, radius),
                        RhinoCylinder(<<startX, 0, Neg(tb_offset)>>,
                                      <<1, 0, 0>>, cross_length, radius),
                        RhinoCylinder(<<cx, startY, Neg(tb_offset)>>,
                                      <<0, 1, 0>>, cross_length, radius) >>
                ELSE <<>>)]

\* main(): for i, h in enumerate(blocks): create_block(h, i * spacing)
RhinoMain(script) ==
    LET blocks  == PyIntList(script.blocks)
        spacing == PyNumber(script.spacing)
    IN  [i \in 1..Len(blocks) |->
            RhinoBlock(script, blocks[i], Times(i - 1, spacing))]

\* ------------------------------------------------------------------- state

VARIABLES
    mode,           \* 'single' or 'batch'
    numHoles,       \* a hole count
    batchList,      \* the hole counts of batch mode
    drillRadius,    \* tenths
    grooveDepth,    \* tenths
    heightDisplay,  \* heightDisplay.textContent
    debounceTimer,  \* the handle of the last setTimeout (0: undefined)
    timers,         \* the browser's pending timeouts: [id, remaining]
    calls,          \* debouncedGenerate calls so far (timeout handles issued)
    sinceCall,      \* time since the last debouncedGenerate call, saturating
    unserved,       \* debouncedGenerate calls since generateModel last began
    pc,             \* "idle", or "generating" inside generateModel's forEach
    blocksToMake,   \* generateModel's local
    blockIndex,     \* the forEach index generateModel is at
    currentMeshes,  \* the meshes of the last generation
    scene,          \* the ids of the meshes in the scene
    undisposed,     \* geometries and materials created and not disposed
    generation,     \* generateModel runs begun
    genConfig,      \* what the last generateModel read: blocks, radius, depth
    event,          \* the input event the last step handled, if it was one
    download        \* the file the last step handed to downloadFile, if any

config == <<mode, numHoles, batchList, drillRadius, grooveDepth>>
timing == <<debounceTimer, timers, calls, sinceCall, unserved>>
display == <<currentMeshes, scene, undisposed, generation, genConfig>>
locals == <<pc, blocksToMake, blockIndex>>
vars == <<config, heightDisplay, timing, display, locals, event, download>>

\* the configuration as generateModel and downloadRhinoScript read it
Config ==
    [blocks |-> BlocksOf(mode, numHoles, batchList),
     radius |-> drillRadius,
     depth  |-> grooveDepth]

NoConfig == [blocks |-> <<>>, radius |-> 0, depth |-> 0]

NoEvent == [target |-> "none", value |-> <<>>]

NoScript == EmitScript(<<>>, 0, 0)

NoDownload == [kind |-> "none", filename |-> "", meshes |-> <<>>, script |-> NoScript]

\* ------------------------------------------------------------------ inputs

\* e.target.value of the mode radios
ModeValues == {"single", "batch"}

\* e.target.value of holes-input: 2, 0, -3, the empty text, 1.5
HolesTexts ==
    { <<"2">>, <<"0">>, <<"-", "3">>, <<>>, <<"1", ".", "5">> }

\* e.target.value of batch-input
BatchTexts ==
    { <<"2", ",", " ", "x", ",", "1">>, <<>>, <<"0", ",", "-", "1">>, <<" ", "1", " ">> }

\* e.target.value of radius-input: 0, -2, the empty text, 0.5
RadiusTexts ==
    { <<"0">>, <<"-", "2">>, <<>>, <<"0", ".", "5">> }

\* e.target.value of depth-input: 0, 0.5, -1
DepthTexts ==
    { <<"0">>, <<"0", ".", "5">>, <<"-", "1">> }

\* the time one Tick lets pass
Quantum == DEBOUNCE_MS \div 3

\* ---------------------------------------------------------------- UI glue

VariableText == <<"V", "a", "r", "i", "a", "b", "l", "e">>

\* updateHeightDisplay(), for the mode and hole count it will read
HeightDisplayFor(m, n) ==
    IF m = "single" THEN FormatNumber(Scale(n, HEIGHT_PER_HOLE)) ELSE VariableText

\* clearTimeout(id)
ClearTimeout(ts, id) == {t \in ts : t.id # id}

\* setTimeout(callback, delay), returning handle id
SetTimeout(ts, id, delay) == ts \cup {[id |-> id, remaining |-> delay]}

\* debouncedGenerate without its clearTimeout(debounceTimer)
DebouncedGenerateNoClear ==
    /\ calls < MaxCalls
    /\ timers' = SetTimeout(timers, calls + 1, DEBOUNCE_MS)
    /\ debounceTimer' = calls + 1
    /\ calls' = calls + 1
    /\ sinceCall' = 0
    /\ unserved' = unserved + 1

\* debouncedGenerate()
DebouncedGenerate ==
    /\ calls < MaxCalls
    /\ timers' = SetTimeout(ClearTimeout(timers, debounceTimer), calls + 1, DEBOUNCE_MS)
    /\ debounceTimer' = calls + 1
    /\ calls' = calls + 1
    /\ sinceCall' = 0
    /\ unserved' = unserved + 1

\* the tasks of the event loop run one at a time, each to completion
Idle == pc = "idle"

\* modeRadios 'change' listener
ModeChange(v) ==
    /\ Idle
    /\ mode' = v
    /\ heightDisplay' = HeightDisplayFor(v, numHoles)
    /\ DebouncedGenerate
    /\ event' = [target |-> "mode", value |-> <<v>>]
    /\ download' = NoDownload
    /\ UNCHANGED <<numHoles, batchList, drillRadius, grooveDepth, display, locals>>

\* let val = parseInt(e.target.value); if (val < 1) val = 1
ClampHoles(text) ==
    LET val == parseInt(text) IN IF Lt(val, 1) THEN 1 ELSE val

\* holesInput 'input' listener
HolesInput(text) ==
    /\ Idle
    /\ numHoles' = ClampHoles(text)
    /\ heightDisplay' = HeightDisplayFor(mode, ClampHoles(text))
    /\ DebouncedGenerate
    /\ event' = [target |-> "holes", value |-> text]
    /\ download' = NoDownload
    /\ UNCHANGED <<mode, batchList, drillRadius, grooveDepth, display, locals>>

\* the batch parse with the filter n => !isNaN(n) alone
ParseBatchKeepingAll(text) ==
    LET pieces == Split(text)
        nums   == [i \in 1..Len(pieces) |-> parseInt(Trim(pieces[i]))]
        Keep(n) == ~IsNaN(n)
    IN  SelectSeq(nums, Keep)

\* str.split(',').map(s => parseInt(s.trim())).filter(n => !isNaN(n) && n > 0)
ParseBatch(text) ==
    LET pieces == Split(text)
        nums   == [i \in 1..Len(pieces) |-> parseInt(Trim(pieces[i]))]
        Keep(n) == ~IsNaN(n) /\ n > 0
    IN  SelectSeq(nums, Keep)

\* batchInput 'input' listener
BatchInput(text) ==
    /\ Idle
    /\ batchList' = IF Len(ParseBatch(text)) > 0 THEN ParseBatch(text) ELSE batchList
    /\ heightDisplay' = HeightDisplayFor(mode, numHoles)
    /\ DebouncedGenerate
    /\ event' = [target |-> "batch", value |-> text]
    /\ download' = NoDownload
    /\ UNCHANGED <<mode, numHoles, drillRadius, grooveDepth, display, locals>>

\* let val = parseFloat(e.target.value); if (val <= 0) val = 0.5
ClampRadius(text) ==
    LET val == parseFloat(text) IN IF Le(val, 0) THEN RADIUS_FLOOR ELSE val

\* radiusInput 'input' listener
RadiusInput(text) ==
    /\ Idle
    /\ drillRadius' = ClampRadius(text)
    /\ DebouncedGenerate
    /\ event' = [target |-> "radius", value |-> text]
    /\ download' = NoDownload
    /\ UNCHANGED <<mode, numHoles, batchList, grooveDepth, heightDisplay, display, locals>>

\* the depth listener without its debouncedGenerate() call
DepthInputNoRegenerate(text) ==
    /\ Idle
    /\ grooveDepth' = parseFloat(text)
    /\ event' = [target |-> "depth", value |-> text]
    /\ download' = NoDownload
    /\ UNCHANGED <<mode, numHoles, batchList, drillRadius, heightDisplay, timing,
                   display, locals>>

\* depthInput 'input' listener
DepthInput(text) ==
    /\ Idle
    /\ grooveDepth' = parseFloat(text)
    /\ DebouncedGenerate
    /\ event' = [target |-> "depth", value |-> text]
    /\ download' = NoDownload
    /\ UNCHANGED <<mode, numHoles, batchList, drillRadius, heightDisplay, display, locals>>

\* ----------------------------------------------------------- generateModel

\* a geometry buffer or material: the generation that created it, the name of
\* the variable that holds it, and the block index (0 for a per-call one)
Resource(gen, name, index) == [gen |-> gen, name |-> name, index |-> index]

\* mesh.geometry.dispose() and mesh.material.dispose() of every mesh
DisposeMeshes(live, meshes) ==
    live \ ({meshes[i].geometry : i \in 1..Len(meshes)}
            \cup {meshes[i].material : i \in 1..Len(meshes)})

\* scene.remove(mesh) of every mesh
RemoveMeshes(sc, meshes) == sc \ {meshes[i].id : i \in 1..Len(meshes)}

\* the geometries and the material generateModel creates before its forEach:
\* hCylGeo, boxBaseGeo, material
SharedResources(gen) ==
    { Resource(gen, "hCylGeo", 0), Resource(gen, "boxBaseGeo", 0),
      Resource(gen, "material", 0) }

\* the geometries one forEach iteration creates: boxGeo, vCylGeo and the
\* geometry of the last resultBrush, which the mesh takes
BlockResources(gen, index) ==
    { Resource(gen, "boxGeo", index), Resource(gen, "vCylGeo", index),
      Resource(gen, "resultBrush.geometry", index) }

\* new THREE.Mesh(resultBrush.geometry, material): the solid is the box less
\* the cutters
Mesh(gen, holes, index, r, d) ==
    [id       |-> [gen |-> gen, index |-> index, clone |-> FALSE],
     geometry |-> Resource(gen, "resultBrush.geometry", index),
     material |-> Resource(gen, "material", 0),
     holes    |-> holes,
     box      |-> BlockBox(holes, index),
     cutters  |-> BlockCutters(holes, index, r, d)]

\* generateModel up to its forEach: the old meshes are removed and disposed,
\* blocksToMake is chosen, the shared geometries and the material are created
GenerateBegin ==
    /\ scene' = RemoveMeshes(scene, currentMeshes)
    /\ undisposed' = DisposeMeshes(undisposed, currentMeshes)
                        \cup SharedResources(generation + 1)
    /\ currentMeshes' = <<>>
    /\ blocksToMake' = BlocksOf(mode, numHoles, batchList)
    /\ blockIndex' = 0
    /\ pc' = IF Len(BlocksOf(mode, numHoles, batchList)) > 0 THEN "generating" ELSE "idle"
    /\ generation' = generation + 1
    /\ genConfig' = Config
    /\ unserved' = 0

\* the timeout's callback: () => { generateModel(); }
TimerFire ==
    /\ Idle
    /\ \E t \in timers :
        /\ t.remaining = 0
        /\ timers' = timers \ {t}
    /\ GenerateBegin
    /\ event' = NoEvent
    /\ download' = NoDownload
    /\ UNCHANGED <<config, heightDisplay, debounceTimer, calls, sinceCall>>

\* one iteration of blocksToMake.forEach((holes, index) => ...); the call
\* returns after the last one
GenerateBlock ==
    /\ pc = "generating"
    /\ LET holes == blocksToMake[blockIndex + 1]
           mesh  == Mesh(generation, holes, blockIndex, drillRadius, grooveDepth)
       IN  /\ undisposed' = undisposed \cup BlockResources(generation, blockIndex)
           /\ scene' = scene \cup {mesh.id}
           /\ currentMeshes' = Append(currentMeshes, mesh)
    /\ blockIndex' = blockIndex + 1
    /\ pc' = IF blockIndex + 1 < Len(blocksToMake) THEN "generating" ELSE "idle"
    /\ event' = NoEvent
    /\ download' = NoDownload
    /\ UNCHANGED <<config, heightDisplay, timing, blocksToMake, generation, genConfig>>

\* ---------------------------------------------------------------- downloads

\* m.clone(): a new mesh object over the same geometry and material
Clone(m) == [m EXCEPT !.id.clone = TRUE]

\* downloadOBJ with group.add(m) in place of group.add(m.clone()): adding a
\* mesh to the group takes it out of the scene
DownloadOBJMovingMeshes ==
    /\ Idle
    /\ download' = [kind     |-> "obj",
                    filename |-> "batch_blocks.obj",
                    meshes   |-> currentMeshes,
                    script   |-> NoScript]
    /\ scene' = RemoveMeshes(scene, currentMeshes)
    /\ event' = NoEvent
    /\ UNCHANGED <<config, heightDisplay, timing, currentMeshes, undisposed,
                   generation, genConfig, locals>>

\* downloadOBJ
DownloadOBJ ==
    /\ Idle
    /\ download' = [kind     |-> "obj",
                    filename |-> "batch_blocks.obj",
                    meshes   |-> [i \in 1..Len(currentMeshes) |-> Clone(currentMeshes[i])],
                    script   |-> NoScript]
    /\ event' = NoEvent
    /\ UNCHANGED <<config, heightDisplay, timing, display, locals>>

\* downloadRhinoScript
DownloadRhinoScript ==
    /\ Idle
    /\ download' = [kind     |-> "script",
                    filename |-> "batch_blocks_v5.py",
                    meshes   |-> <<>>,
                    script   |-> EmitScript(BlocksOf(mode, numHoles, batchList),
                                            drillRadius, grooveDepth)]
    /\ event' = NoEvent
    /\ UNCHANGED <<config, heightDisplay, timing, display, locals>>

\* --------------------------------------------------------------------- time

Min(a, b) == IF a < b THEN a ELSE b

\* Quantum of time passes while the event loop is idle; a timeout that is due
\* runs before more time passes.
Tick ==
    /\ Idle
    /\ \A t \in timers : t.remaining >= Quantum
    /\ timers' = {[t EXCEPT !.remaining = @ - Quantum] : t \in timers}
    /\ sinceCall' = Min(sinceCall + Quantum, DEBOUNCE_MS + Quantum)
    /\ event' = NoEvent
    /\ download' = NoDownload
    /\ UNCHANGED <<config, heightDisplay, debounceTimer, calls, unserved, display, locals>>

\* -------------------------------------------------------------- the program

\* the state after the module's start-up code: init(); debouncedGenerate()
Init ==
    /\ mode = "single"
    /\ numHoles = 5
    /\ batchList = <<3, 2, 5>>
    /\ drillRadius = Units(4)
    /\ grooveDepth = Units(1) \div 2
    /\ heightDisplay = HeightDisplayFor("single", 5)
    /\ debounceTimer = 1
    /\ timers = SetTimeout({}, 1, DEBOUNCE_MS)
    /\ calls = 1
    /\ sinceCall = 0
    /\ unserved = 1
    /\ pc = "idle"
    /\ blocksToMake = <<>>
    /\ blockIndex = 0
    /\ currentMeshes = <<>>
    /\ scene = {}
    /\ undisposed = {}
    /\ generation = 0
    /\ genConfig = NoConfig
    /\ event = NoEvent
    /\ download = NoDownload

Next ==
    \/ \E v \in ModeValues : ModeChange(v)
    \/ \E text \in HolesTexts : HolesInput(text)
    \/ \E text \in BatchTexts : BatchInput(text)
    \/ \E text \in RadiusTexts : RadiusInput(text)
    \/ \E text \in DepthTexts : DepthInput(text)
    \/ TimerFire
    \/ GenerateBlock
    \/ DownloadOBJ
    \/ DownloadRhinoScript
    \/ Tick

Spec == Init /\ [][Next]_vars

\* ------------------------------------------------- reading the two layouts

ValidHoles(n) == ~IsNaN(n) /\ n >= 1
ValidRadius(r) == Gt(r, 0)
ValidDepth(d) == ~IsNaN(d) /\ d >= 0
ValidList(list) == Len(list) > 0 /\ \A i \in 1..Len(list) : ValidHoles(list[i])
ValidConfig(c) == ValidList(c.blocks) /\ ValidRadius(c.radius) /\ ValidDepth(c.depth)

\* the axis of a brush's cylinder: Y, turned onto X by a quarter turn about Z
\* and onto Z by a quarter turn about X
BrushAxis(rotation) ==
    IF rotation = RotZ THEN "X" ELSE IF rotation = RotX THEN "Z" ELSE "Y"

\* the axis of a script cylinder: the normal of its base plane
NormalAxis(normal) ==
    IF normal = <<1, 0, 0>> THEN "X" ELSE IF normal = <<0, 1, 0>> THEN "Y" ELSE "Z"

AxisIndex(axis) == IF axis = "X" THEN 1 ELSE IF axis = "Y" THEN 2 ELSE 3

\* a brush as axis, radius, length and centre, in the preview's frame
BrushCylinder(b) ==
    [axis |-> BrushAxis(b.rotation), radius |-> b.radius,
     length |-> b.length, center |-> b.position]

\* a script cylinder as axis, radius, length and centre, in the script's frame
ScriptCylinder(c) ==
    [axis |-> NormalAxis(c.normal), radius |-> c.radius, length |-> c.length,
     center |-> [k \in 1..3 |-> Add(c.base[k], Times(c.normal[k], Half(c.length)))]]

\* the preview's frame mapped onto the script's: the preview's Y (the long
\* axis) is the script's Z, and the preview's Z is the script's Y
InScriptFrame(c) ==
    [axis |-> IF c.axis = "Y" THEN "Z" ELSE IF c.axis = "Z" THEN "Y" ELSE "X",
     radius |-> c.radius, length |-> c.length,
     center |-> <<c.center[1], c.center[3], c.center[2]>>]

\* a preview box as its two opposite corners, in the script's frame
BoxCorners(box) ==
    [c1 |-> <<Sub(box.position[1], Half(box.size[1])),
              Sub(box.position[3], Half(box.size[3])),
              Sub(box.position[2], Half(box.size[2]))>>,
     c7 |-> <<Add(box.position[1], Half(box.size[1])),
              Add(box.position[3], Half(box.size[3])),
              Add(box.position[2], Half(box.size[2]))>>]

\* the cutters of a mesh, in the script's frame
MeshCylinders(m) ==
    [j \in 1..Len(m.cutters) |-> InScriptFrame(BrushCylinder(m.cutters[j]))]

\* the cutters of a script block
BlockCylinders(b) ==
    [j \in 1..Len(b.cutters) |-> ScriptCylinder(b.cutters[j])]

\* what a script says of its configuration
ScriptConfig(script) ==
    [blocks |-> PyIntList(script.blocks),
     radius |-> PyNumber(script.radius),
     depth  |-> PyNumber(script.grooveDepth)]

\* the preview is idle and shows a generation
Shown == pc = "idle" /\ generation > 0

\* ---------------------------------------------------------------- C1

\* the long-axis positions of the n hole levels of a block: -height/2 + 10 + 20 i
LevelPositions(n) ==
    {(0 - n * Units(HEIGHT_PER_HOLE)) \div 2 + Units(10) + i * Units(20) : i \in 0..(n - 1)}

\* C1, for one mesh of n levels built with radius r and depth d
CutterCounts(m, n, r, d) ==
    LET OnAxis(c)     == c.position[1] = m.box.position[1] /\ c.position[3] = 0
        IsVertical(c) == BrushAxis(c.rotation) = "Y"
        IsThrough(c)  == ~IsVertical(c) /\ OnAxis(c) /\ c.position[2] \in LevelPositions(n)
        IsSide(c)     == ~IsVertical(c) /\ ~OnAxis(c)
        IsTopBot(c)   == ~IsVertical(c) /\ OnAxis(c) /\ c.position[2] \notin LevelPositions(n)
        all           == 1..Len(m.cutters)
    IN  /\ Cardinality({j \in all : IsVertical(m.cutters[j])}) = 1
        /\ Cardinality({j \in all : IsThrough(m.cutters[j])}) = 2 * n
        /\ Cardinality({j \in all : IsSide(m.cutters[j])}) = IF d > 0 THEN 4 * n ELSE 0
        /\ Cardinality({j \in all : IsTopBot(m.cutters[j])}) = IF d > 0 THEN 4 ELSE 0
        /\ Len(m.cutters) = IF d > 0 THEN 6 * n + 5 ELSE 2 * n + 1

\* C1: every block generateModel builds from a hole count n >= 1, a radius
\* r > 0 and a depth d >= 0 has 1 vertical-hole cutter, 2n through-cylinders
\* and, when d > 0, 4n side-groove and 4 top/bottom-groove cylinders, and no
\* groove cylinder when d = 0: 6n + 5 cutters for d > 0, 2n + 1 for d = 0.
C1_CutterCount ==
    \A i \in 1..Len(currentMeshes) :
        LET m == currentMeshes[i]
        IN  ValidHoles(m.holes) /\ ValidRadius(genConfig.radius) /\ ValidDepth(genConfig.depth)
            => CutterCounts(m, m.holes, genConfig.radius, genConfig.depth)

\* C1 witness: the spec's scenario (n = 5, r = 4.0, d = 0.5) has been built
\* with its 35 cutters.
C1_Witness ==
    /\ Shown
    /\ genConfig = [blocks |-> <<5>>, radius |-> Units(4), depth |-> 5]
    /\ Len(currentMeshes) = 1
    /\ Len(currentMeshes[1].cutters) = 35

\* ---------------------------------------------------------------- C2

\* a script was just emitted for the configuration the shown meshes were
\* built from, a configuration with hole counts >= 1, r > 0 and d >= 0
ScriptOfShown ==
    /\ download.kind = "script"
    /\ Shown
    /\ genConfig = Config
    /\ ValidConfig(Config)

\* C2: for every configuration (hole counts >= 1, r > 0, d >= 0) and every
\* block, the emitted script describes the layout generateModel builds: the
\* same box, and the same cutters (count, axis, radius, length, centre) once
\* the preview's Y axis is mapped to the script's Z axis.
C2_SameLayout ==
    ScriptOfShown =>
        LET blocks == RhinoMain(download.script)
        IN  /\ Len(blocks) = Len(currentMeshes)
            /\ \A i \in 1..Len(blocks) :
                /\ BoxCorners(currentMeshes[i].box) = [c1 |-> blocks[i].c1, c7 |-> blocks[i].c7]
                /\ MeshCylinders(currentMeshes[i]) = BlockCylinders(blocks[i])

\* What does hold of the two layouts: they agree on the box and on every
\* cutter but for the length of the vertical hole, which is the box height
\* plus 20 in the preview and plus 100 in the script.
C2_SameButVerticalLength ==
    ScriptOfShown =>
        LET blocks == RhinoMain(download.script)
        IN  /\ Len(blocks) = Len(currentMeshes)
            /\ \A i \in 1..Len(blocks) :
                LET ms == MeshCylinders(currentMeshes[i])
                    bs == BlockCylinders(blocks[i])
                IN  /\ BoxCorners(currentMeshes[i].box)
                          = [c1 |-> blocks[i].c1, c7 |-> blocks[i].c7]
                    /\ Len(ms) = Len(bs)
                    /\ Tail(ms) = Tail(bs)
                    /\ [ms[1] EXCEPT !.length = 0] = [bs[1] EXCEPT !.length = 0]
                    /\ ms[1].length = Add(currentMeshes[i].box.size[2], Units(20))
                    /\ bs[1].length = Add(currentMeshes[i].box.size[2], Units(100))

\* ---------------------------------------------------------------- C3

\* C3 as stated: whenever downloadRhinoScript runs, the hole counts, radius
\* and depth in the script are those the most recent generateModel built the
\* displayed meshes from, whatever events came before.
C3_ScriptOfDisplayed ==
    download.kind = "script" /\ generation > 0
        => ScriptConfig(download.script) = genConfig

\* C3 amended: whenever downloadRhinoScript runs, the script holds the
\* current configuration (hole counts by mode, radius, depth, side-groove
\* offset); it is the configuration of the most recent generateModel, and so
\* of the displayed meshes, whenever no debounce timer is pending.
C3_ScriptOfCurrent ==
    download.kind = "script" =>
        /\ ScriptConfig(download.script) = Config
        /\ PyNumber(download.script.groove_offset)
              = SideGrooveOffset(drillRadius, grooveDepth)
        /\ timers = {} => generation > 0 /\ ScriptConfig(download.script) = genConfig

\* C3 witness: a script downloaded with no timer pending, after an edit has
\* been regenerated.
C3_Witness ==
    /\ download.kind = "script"
    /\ timers = {}
    /\ generation >= 2
    /\ mode = "batch"

\* ---------------------------------------------------------------- C4

C4_TimerInvariant ==
    /\ Cardinality(timers) <= 1
    /\ \A t \in timers : t.id = debounceTimer /\ t.remaining + sinceCall = DEBOUNCE_MS
    /\ (unserved > 0) <=> (timers # {})
    /\ sinceCall > DEBOUNCE_MS => unserved = 0
    /\ pc = "generating" => timers = {}

C4_GenerateStep ==
    generation' # generation =>
        /\ pc = "idle"
        /\ sinceCall = DEBOUNCE_MS
        /\ unserved >= 1
        /\ timers' = {}
        /\ genConfig' = Config

\* C4: at most one regeneration timer is pending, always due 300 after the
\* last debouncedGenerate call; generateModel begins only 300 after the last
\* event of a burst, once for all the calls of the burst, reading the
\* configuration as that event left it, and never while another runs.
C4_Debounce == []C4_TimerInvariant /\ [][C4_GenerateStep]_vars

\* C4 witness: three debouncedGenerate calls served by a single generation.
C4_Witness ==
    /\ calls = 3
    /\ generation = 1
    /\ Shown
    /\ timers = {}

\* ---------------------------------------------------------------- C5

IsDisplayResource(r) == r.name \in {"resultBrush.geometry", "material"}

\* C5: once a generation's meshes are attached, every geometry and material
\* an earlier generation created has been removed from the scene and
\* disposed, so that what is created and not disposed does not grow with the
\* number of regenerations.
C5_AllReleased ==
    scene # {} => \A r \in undisposed : r.gen = generation

\* What does hold: the meshes of an earlier generation are out of the scene,
\* and their geometries and material disposed, before a mesh of the new one
\* is attached; the undisposed mesh geometries and materials are those of the
\* current generation, at most one geometry per block and one material.
C5_MeshesReleased ==
    /\ \A r \in undisposed : IsDisplayResource(r) => r.gen = generation
    /\ scene = {currentMeshes[i].id : i \in 1..Len(currentMeshes)}
    /\ \A id \in scene : id.gen = generation
    /\ \A i \in 1..Len(currentMeshes) :
          currentMeshes[i].geometry \in undisposed /\ currentMeshes[i].material \in undisposed
    /\ Cardinality({r \in undisposed : IsDisplayResource(r)}) <= Len(genConfig.blocks) + 1

\* ---------------------------------------------------------------- C6

\* block i (from 1) of list L, as generateModel built it with radius r and
\* depth d: centred at (i - 1) x 40, L[i] levels, height L[i] x 20, every
\* cutter the cutter of a block at the origin shifted by the same offset
BlockPlaced(m, i, L, r, d) ==
    LET x  == (i - 1) * Units(40)
        n  == L[i]
        atOrigin == BlockCutters(n, 0, r, d)
        At(axis, y) == {j \in 1..Len(m.cutters) :
                            /\ BrushAxis(m.cutters[j].rotation) = axis
                            /\ m.cutters[j].position = <<x, y, 0>>}
    IN  /\ m.holes = n
        /\ m.box.position = <<x, 0, 0>>
        /\ m.box.size[2] = n * Units(20)
        /\ \A y \in LevelPositions(n) :
              Cardinality(At("X", y)) = 1 /\ Cardinality(At("Z", y)) = 1
        /\ Len(m.cutters) = 1 + n * (IF d > 0 THEN 6 ELSE 2) + (IF d > 0 THEN 4 ELSE 0)
        /\ [j \in 1..Len(m.cutters) |-> [m.cutters[j] EXCEPT !.position[1] = Sub(@, x)]]
              = atOrigin

\* block i (from 1) of list L, as the script's driver places it
ScriptBlockPlaced(b, i, L) ==
    LET centers == {ScriptCylinder(b.cutters[j]).center : j \in 1..Len(b.cutters)}
    IN  /\ Add(b.c1[1], b.c7[1]) = 2 * (i - 1) * Units(40)
        /\ Sub(b.c7[3], b.c1[3]) = L[i] * Units(20)
        /\ \A y \in LevelPositions(L[i]) : <<(i - 1) * Units(40), 0, y>> \in centers

\* C6: for every hole-count list L, generateModel makes len(L) meshes in list
\* order, block i centred at i x 40 with all its cutters shifted by that
\* offset, with L[i] levels and height L[i] x 20; the script's driver walks
\* the same list with the same spacing.
C6_BatchLayout ==
    /\ ValidList(genConfig.blocks) =>
          /\ Shown => Len(currentMeshes) = Len(genConfig.blocks)
          /\ \A i \in 1..Len(currentMeshes) :
                BlockPlaced(currentMeshes[i], i, genConfig.blocks,
                            genConfig.radius, genConfig.depth)
    /\ download.kind = "script" /\ ValidList(Config.blocks) =>
          LET blocks == RhinoMain(download.script)
          IN  /\ PyIntList(download.script.blocks) = Config.blocks
              /\ PyNumber(download.script.spacing) = Units(40)
              /\ Len(blocks) = Len(Config.blocks)
              /\ \A i \in 1..Len(blocks) : ScriptBlockPlaced(blocks[i], i, Config.blocks)

\* C6 witness: the list [3, 2, 5] shown as three blocks at 0, 40 and 80, and
\* its script just emitted.
C6_Witness ==
    /\ Shown
    /\ mode = "batch"
    /\ download.kind = "script"
    /\ Config.blocks = <<3, 2, 5>>
    /\ genConfig = Config
    /\ ValidConfig(Config)
    /\ [i \in 1..3 |-> currentMeshes[i].box.position[1]] = <<0, 400, 800>>

\* ---------------------------------------------------------------- C7

\* the entries of a batch text that parse to positive integers, in order
PositiveEntries(text) ==
    LET pieces == Split(text)
        IsPositive(piece) == ~IsNaN(parseInt(Trim(piece))) /\ parseInt(Trim(piece)) > 0
        kept == SelectSeq(pieces, IsPositive)
    IN  [i \in 1..Len(kept) |-> parseInt(Trim(kept[i]))]

C7_NonEmptyPositive ==
    /\ Len(batchList) >= 1
    /\ \A i \in 1..Len(batchList) : batchList[i] \in Nat /\ batchList[i] >= 1

C7_BatchStep ==
    event'.target = "batch" =>
        batchList' = IF PositiveEntries(event'.value) # <<>>
                     THEN PositiveEntries(event'.value)
                     ELSE batchList

\* C7: a batch-input event replaces batchList with the entries of the text
\* that parse to positive integers, in order, and leaves it unchanged when
\* there is none; batchList is always a non-empty sequence of integers >= 1.
C7_BatchList == []C7_NonEmptyPositive /\ [][C7_BatchStep]_vars

\* C7 witness: the text "2, x,1" has just replaced the list by [2, 1].
C7_Witness ==
    /\ event.target = "batch"
    /\ event.value = <<"2", ",", " ", "x", ",", "1">>
    /\ batchList = <<2, 1>>

\* ---------------------------------------------------------------- C8

\* C8: whenever generateModel or downloadRhinoScript runs, numHoles is an
\* integer >= 1 and drillRadius is > 0, whatever values were entered.
C8_Sanitized ==
    pc = "generating" \/ download.kind = "script"
        => ValidHoles(numHoles) /\ ValidRadius(drillRadius)

\* What does hold: a value that is a number is clamped; NaN is stored as is.
C8_SanitizedUnlessNaN ==
    /\ IsNaN(numHoles) \/ ValidHoles(numHoles)
    /\ IsNaN(drillRadius) \/ ValidRadius(drillRadius)

\* ---------------------------------------------------------------- C9

\* a preview cutter runs past both ends of its box along its own axis
BrushThrough(box, b) ==
    LET k == AxisIndex(BrushAxis(b.rotation))
    IN  /\ Lt(Sub(b.position[k], Half(b.length)), Sub(box.position[k], Half(box.size[k])))
        /\ Gt(Add(b.position[k], Half(b.length)), Add(box.position[k], Half(box.size[k])))

\* a script cutter runs past both ends of its box along its own axis
CylinderThrough(block, c) ==
    LET k == AxisIndex(NormalAxis(c.normal))
    IN  /\ Lt(c.base[k], block.c1[k])
        /\ Gt(Add(c.base[k], c.length), block.c7[k])

\* C9: for every hole count n >= 1 and every block, every cutter of the
\* preview and of the script runs past both ends of the box along its own
\* axis; every cutter but the vertical hole is 80 long.
C9_OpenEnded ==
    /\ \A i \in 1..Len(currentMeshes) :
          LET m == currentMeshes[i]
          IN  ValidHoles(m.holes) =>
                \A j \in 1..Len(m.cutters) :
                    /\ BrushThrough(m.box, m.cutters[j])
                    /\ j > 1 => m.cutters[j].length = Units(80)
    /\ download.kind = "script" /\ ValidList(Config.blocks) =>
          LET blocks == RhinoMain(download.script)
          IN  \A i \in 1..Len(blocks) :
                  \A j \in 1..Len(blocks[i].cutters) :
                      /\ CylinderThrough(blocks[i], blocks[i].cutters[j])
                      /\ j > 1 => blocks[i].cutters[j].length = Units(80)

\* C9 witness: three grooved blocks are shown and their script was emitted.
C9_Witness ==
    /\ ScriptOfShown
    /\ Len(currentMeshes) = 3
    /\ grooveDepth > 0
    /\ Len(RhinoMain(download.script)[3].cutters) = Len(currentMeshes[3].cutters)

\* --------------------------------------------------------------- C10

C10_Exported ==
    download.kind = "obj" =>
        /\ Len(download.meshes) = Len(genConfig.blocks)
        /\ Len(download.meshes) = Len(currentMeshes)
        /\ \A i \in 1..Len(download.meshes) :
              LET shown == [gen |-> generation, index |-> i - 1, clone |-> FALSE]
              IN  /\ currentMeshes[i].id = shown
                  /\ shown \in scene
                  /\ download.meshes[i].id \notin scene
                  /\ download.meshes[i].geometry = currentMeshes[i].geometry
                  /\ download.meshes[i].material = currentMeshes[i].material
                  /\ download.meshes[i].box = currentMeshes[i].box
                  /\ download.meshes[i].cutters = currentMeshes[i].cutters
                  /\ download.meshes[i].holes = genConfig.blocks[i]

C10_Frame ==
    download'.kind = "obj" =>
        UNCHANGED <<currentMeshes, scene, undisposed, config, timers, debounceTimer>>

\* C10: downloadOBJ exports one mesh for each block of the most recently
\* completed generateModel, in generation order (none before the first), the
\* meshes then displayed even when the configuration has been edited since,
\* and leaves currentMeshes, the scene, the configuration and the pending
\* timer unchanged.
C10_ExportsDisplayed == []C10_Exported /\ [][C10_Frame]_vars

\* C10 witness: three meshes exported while the edited configuration is no
\* longer the one they were built from.
C10_Witness ==
    /\ download.kind = "obj"
    /\ Len(download.meshes) = 3
    /\ Config # genConfig
    /\ timers # {}

====
